---- MODULE Spec2Model ----
(***************************************************************************)
(* A model of nova/network/model.py: the keyed entities IP, FixedIP,       *)
(* Route, Subnet, Network, VIF (and the two interface-parameter entities), *)
(* their add_* helpers and hydrate constructors, and the operations of     *)
(* the NetworkInfo list: fixed_ips, floating_ips, json, hydrate, legacy.   *)
(*                                                                         *)
(* Every entity is a Python dict subclass.  It is modelled as a TLA+       *)
(* function from key strings to values, with one extra key "cls" that      *)
(* holds the Python class of the object (the only thing a dict subclass    *)
(* has beyond its items).  Python's None is NoneObj where an object is     *)
(* expected, None where a string is expected, NoVersion where the address  *)
(* family number is expected.                                              *)
(***************************************************************************)
EXTENDS Integers, Sequences, FiniteSets, TLC

VARIABLES
    nw_info,        \* self: the NetworkInfo list of VIFs
    pc,             \* which operation is running, and where it stands
    idx,            \* legacy: position of the `for vif in self` loop
    network_info,   \* legacy: the local list the loop appends to
    ret,            \* what the last operation handed to its caller
    last            \* the last add_* call: its name, target list before, argument

vars == <<nw_info, pc, idx, network_info, ret, last>>

(***************************************************************************)
(* Bounds of the model.                                                    *)
(***************************************************************************)
MaxVifs == 2        \* VIFs in the NetworkInfo list
MaxSubnets == 3     \* subnets in the whole NetworkInfo list
MaxElements == 4    \* add_*: subnets and list elements under one network

(***************************************************************************)
(* Python values.                                                          *)
(***************************************************************************)
None == "None"
NoneObj == [cls |-> "NoneType"]
NoVersion == 0
EmptyDict == [k \in {} |-> None]

\* bool(d) of a dict (or of None): it has at least one item
TruthyObj(o) == DOMAIN o \ {"cls"} # {}
\* bool(s) of a string (or of None)
TruthyStr(s) == s # None /\ s # ""

\* d.get(k, default), and kwargs.pop(k, default) as the pair (Get, Without)
Get(d, k, default) == IF k \in DOMAIN d THEN d[k] ELSE default
Without(d, keys) == [k \in DOMAIN d \ keys |-> d[k]]
\* d.update(e): the items of e win
Update(d, e) == e @@ d
\* the items of an object without its class
Items(o) == Without(o, {"cls"})

RECURSIVE Concat(_)
Concat(ss) == IF ss = <<>> THEN <<>> ELSE Head(ss) \o Concat(Tail(ss))

MapSeq(s, F(_)) == [i \in 1..Len(s) |-> F(s[i])]

(***************************************************************************)
(* The address library (netaddr), on the addresses and prefixes the model  *)
(* uses.                                                                   *)
(***************************************************************************)
V4Addresses == {"10.0.0.1", "10.0.0.5", "10.0.0.6", "10.0.1.1", "10.0.1.5",
                "172.16.0.9"}
V6Addresses == {"fd00::1", "fd00::5", "fd01::1", "fd01::5"}
V4Cidrs == {"10.0.0.0/24", "10.0.1.0/24", "0.0.0.0/0"}
V6Cidrs == {"fd00::/64", "fd01::/64"}

\* netaddr.IPAddress(a).version
AddressVersion(a) == IF a \in V4Addresses THEN 4 ELSE 6
\* netaddr.IPNetwork(c).version
CidrVersion(c) == IF c \in V4Cidrs THEN 4 ELSE 6
\* str(netaddr.IPNetwork(c).netmask)
Netmask(c) ==
    CASE c = "10.0.0.0/24" -> "255.255.255.0"
      [] c = "10.0.1.0/24" -> "255.255.255.0"
      [] c = "0.0.0.0/0" -> "0.0.0.0"
      [] c = "fd00::/64" -> "ffff:ffff:ffff:ffff::"
      [] c = "fd01::/64" -> "ffff:ffff:ffff:ffff::"
\* netaddr.IPNetwork(c)._prefixlen
Prefixlen(c) ==
    CASE c \in {"10.0.0.0/24", "10.0.1.0/24"} -> 24
      [] c = "0.0.0.0/0" -> 0
      [] c \in V6Cidrs -> 64
\* str(netaddr.IPNetwork(c).network)
NetworkAddress(c) ==
    CASE c = "10.0.0.0/24" -> "10.0.0.0"
      [] c = "10.0.1.0/24" -> "10.0.1.0"
      [] c = "0.0.0.0/0" -> "0.0.0.0"
      [] c = "fd00::/64" -> "fd00::"
      [] c = "fd01::/64" -> "fd01::"
\* str(netaddr.IPNetwork(c).broadcast)
Broadcast(c) ==
    CASE c = "10.0.0.0/24" -> "10.0.0.255"
      [] c = "10.0.1.0/24" -> "10.0.1.255"
      [] c = "0.0.0.0/0" -> "255.255.255.255"
      [] c = "fd00::/64" -> "fd00::ffff:ffff:ffff:ffff"
      [] c = "fd01::/64" -> "fd01::ffff:ffff:ffff:ffff"

(***************************************************************************)
(* Model: the meta sub-map.                                                *)
(***************************************************************************)
\* Model._set_meta(kwargs): the value of self['meta'] it leaves
set_meta(kwargs) == Update(Get(kwargs, "meta", EmptyDict), Without(kwargs, {"meta"}))

\* Model.get_meta(key, default): self['meta'].get(key, default).  An object
\* with no 'meta' item raises KeyError.
get_meta_raises(self) == "meta" \notin DOMAIN self
get_meta(self, key, default) == Get(self.meta, key, default)

\* what a call hands its caller: a value, or an exception
Value(v) == [kind |-> "value", value |-> v]
Raise(exc) == [kind |-> "raise", exc |-> exc]

\* a call of get_meta on any Model object
call_get_meta(self, key, default) ==
    IF get_meta_raises(self) THEN Raise("KeyError")
    ELSE Value(get_meta(self, key, default))

(***************************************************************************)
(* The constructors.  Each takes the keyword arguments of the call as one  *)
(* dict kw and returns the object __init__ leaves.                         *)
(***************************************************************************)
\* IP.__init__(address=None, type=None, **kwargs)
IP(kw) ==
    LET address == Get(kw, "address", None)
        kwargs == Without(kw, {"address", "type"})
        version == Get(kwargs, "version", NoVersion)
    IN  [cls |-> "IP",
         address |-> address,
         type |-> Get(kw, "type", None),
         version |-> IF TruthyStr(address) /\ version = NoVersion
                     THEN AddressVersion(address) ELSE version,
         meta |-> set_meta(Without(kwargs, {"version"}))]

\* FixedIP.__init__(floating_ips=None, **kwargs)
FixedIP(kw) ==
    LET ip == IP(Without(kw, {"floating_ips"}))
        floating_ips == Get(kw, "floating_ips", <<>>)
    IN  [ip EXCEPT !.cls = "FixedIP",
                   !.type = IF TruthyStr(ip.type) THEN ip.type ELSE "fixed"]
        @@ [floating_ips |-> floating_ips]

\* Route.__init__(cidr=None, gateway=None, interface=None, **kwargs)
Route(kw) ==
    [cls |-> "Route",
     cidr |-> Get(kw, "cidr", None),
     gateway |-> Get(kw, "gateway", NoneObj),
     interface |-> Get(kw, "interface", None),
     meta |-> set_meta(Without(kw, {"cidr", "gateway", "interface"}))]

\* Subnet.__init__(cidr=None, dns=None, gateway=None, ips=None, routes=None, **kwargs)
Subnet(kw) ==
    LET cidr == Get(kw, "cidr", None)
        kwargs == Without(kw, {"cidr", "dns", "gateway", "ips", "routes"})
        version == Get(kwargs, "version", NoVersion)
    IN  [cls |-> "Subnet",
         cidr |-> cidr,
         dns |-> Get(kw, "dns", <<>>),
         gateway |-> Get(kw, "gateway", NoneObj),
         ips |-> Get(kw, "ips", <<>>),
         routes |-> Get(kw, "routes", <<>>),
         version |-> IF TruthyStr(cidr) /\ version = NoVersion
                     THEN CidrVersion(cidr) ELSE version,
         meta |-> set_meta(Without(kwargs, {"version"}))]

\* Network.__init__(id=None, bridge=None, label=None, subnets=None, **kwargs)
Network(kw) ==
    [cls |-> "Network",
     id |-> Get(kw, "id", None),
     bridge |-> Get(kw, "bridge", None),
     label |-> Get(kw, "label", None),
     subnets |-> Get(kw, "subnets", <<>>),
     meta |-> set_meta(Without(kw, {"id", "bridge", "label", "subnets"}))]

\* VIF8021QbgParams.__init__(managerid, typeid, typeidversion, instanceid)
VIF8021QbgParams(managerid, typeid, typeidversion, instanceid) ==
    [cls |-> "VIF8021QbgParams",
     managerid |-> managerid,
     typeid |-> typeid,
     typeidversion |-> typeidversion,
     instanceid |-> instanceid]

\* VIF8021QbhParams.__init__(profileid)
VIF8021QbhParams(profileid) ==
    [cls |-> "VIF8021QbhParams", profileid |-> profileid]

\* VIF.__init__(id=None, address=None, network=None, type=None, devname=None,
\*              ovs_interfaceid=None, qbh_params=None, qbg_params=None, **kwargs)
VIF(kw) ==
    LET network == Get(kw, "network", NoneObj)
    IN  [cls |-> "VIF",
         id |-> Get(kw, "id", None),
         address |-> Get(kw, "address", None),
         network |-> IF TruthyObj(network) THEN network ELSE NoneObj,
         type |-> Get(kw, "type", None),
         devname |-> Get(kw, "devname", None),
         ovs_interfaceid |-> Get(kw, "ovs_interfaceid", None),
         qbh_params |-> Get(kw, "qbh_params", NoneObj),
         qbg_params |-> Get(kw, "qbg_params", NoneObj),
         meta |-> set_meta(Without(kw, {"id", "address", "network", "type",
                                        "devname", "ovs_interfaceid",
                                        "qbh_params", "qbg_params"}))]

(***************************************************************************)
(* NetworkInfo.legacy: the helpers defined inside it.                      *)
(***************************************************************************)
\* get_ip(ip)
get_ip(ip) == IF ~TruthyObj(ip) THEN None ELSE ip.address

\* fixed_ip_dict(ip, subnet)
fixed_ip_dict(ip, subnet) ==
    [ip |-> ip.address,
     enabled |-> "1",
     netmask |-> IF ip.version = 4 THEN Netmask(subnet.cidr)
                 ELSE Prefixlen(subnet.cidr),
     gateway |-> get_ip(subnet.gateway)]

\* convert_routes(routes)
convert_route(route) ==
    [route |-> NetworkAddress(route.cidr),
     netmask |-> Netmask(route.cidr),
     gateway |-> get_ip(route.gateway)]
convert_routes(routes) == MapSeq(routes, convert_route)

(***************************************************************************)
(* NetworkInfo.legacy: one pass of the body of `for vif in self`.          *)
(***************************************************************************)
\* legacy_skips without the test of the subnets list
legacy_skips_network_only(vif) == ~TruthyObj(vif.network)

\* the test that ends the pass with `continue`
legacy_skips(vif) ==
    \/ ~TruthyObj(vif.network)
    \/ vif.network.subnets = <<>>

\* the two lists the inner loop over vif['network']['subnets'] builds
IsV4(subnet) == subnet.version = 4
IsNotV4(subnet) == subnet.version # 4
v4_subnets_of(subnets) == SelectSeq(subnets, IsV4)
v6_subnets_of(subnets) == SelectSeq(subnets, IsNotV4)

\* first_or_none taking the last subnet of the list
last_or_none(subnets) == IF subnets # <<>> THEN subnets[Len(subnets)] ELSE NoneObj

\* subnet_v4 and subnet_v6: the first of each list, or None
first_or_none(subnets) == IF subnets # <<>> THEN subnets[1] ELSE NoneObj

\* legacy_dhcp_server with get_meta's own default in place of the gateway
legacy_dhcp_server_default_none(subnet_v4, gateway) ==
    get_meta(subnet_v4, "dhcp_server", None)

\* dhcp_server = subnet_v4.get_meta('dhcp_server', gateway)
legacy_dhcp_server(subnet_v4, gateway) == get_meta(subnet_v4, "dhcp_server", gateway)

\* network_dict
legacy_network_dict(network, subnet_v4, subnet_v6) ==
    [bridge |-> network.bridge,
     id |-> network.id,
     cidr |-> subnet_v4.cidr,
     cidr_v6 |-> IF TruthyObj(subnet_v6) THEN subnet_v6.cidr ELSE None,
     vlan |-> get_meta(network, "vlan", None),
     injected |-> get_meta(network, "injected", FALSE),
     multi_host |-> get_meta(network, "multi_host", FALSE),
     bridge_interface |-> get_meta(network, "bridge_interface", None)]

\* legacy_ips giving every address the gateway of subnet_v4
legacy_ips_first_gateway(v4_subnets) ==
    Concat([i \in 1..Len(v4_subnets) |->
               [j \in 1..Len(v4_subnets[i].ips) |->
                   [fixed_ip_dict(v4_subnets[i].ips[j], v4_subnets[i])
                       EXCEPT !.gateway = get_ip(v4_subnets[1].gateway)]]])

\* 'ips': [fixed_ip_dict(ip, subnet) for subnet in v4_subnets for ip in subnet['ips']]
legacy_ips(v4_subnets) ==
    Concat([i \in 1..Len(v4_subnets) |->
               [j \in 1..Len(v4_subnets[i].ips) |->
                   fixed_ip_dict(v4_subnets[i].ips[j], v4_subnets[i])]])

\* 'ip6s': [fixed_ip_dict(ip, subnet_v6) for ip in subnet_v6['ips']]
legacy_ip6s(v6_subnets, subnet_v6) ==
    [j \in 1..Len(subnet_v6.ips) |-> fixed_ip_dict(subnet_v6.ips[j], subnet_v6)]

\* the keys of info_dict that are added after the literal
legacy_routes_key(routes) ==
    IF routes # <<>> THEN [routes |-> routes] ELSE EmptyDict
legacy_gateway_key(gateway) ==
    IF TruthyStr(gateway) THEN [gateway |-> gateway] ELSE EmptyDict
\* legacy_gateway_v6_key testing the address, as the 'gateway' key does
legacy_gateway_v6_key_by_address(v6_subnets, subnet_v6) ==
    IF v6_subnets # <<>> /\ TruthyStr(get_ip(subnet_v6.gateway))
    THEN [gateway_v6 |-> get_ip(subnet_v6.gateway)] ELSE EmptyDict
legacy_gateway_v6_key(v6_subnets, subnet_v6) ==
    IF v6_subnets # <<>> /\ TruthyObj(subnet_v6.gateway)
    THEN [gateway_v6 |-> get_ip(subnet_v6.gateway)] ELSE EmptyDict
legacy_ip6s_key(v6_subnets, subnet_v6) ==
    IF v6_subnets # <<>> THEN [ip6s |-> legacy_ip6s(v6_subnets, subnet_v6)]
    ELSE EmptyDict

\* info_dict
legacy_info_dict(vif, network, v4_subnets, v6_subnets, subnet_v4, subnet_v6) ==
    LET routes == convert_routes(subnet_v4.routes)
        should_create_bridge == get_meta(network, "should_create_bridge", FALSE)
        should_create_vlan == get_meta(network, "should_create_vlan", FALSE)
        gateway == get_ip(subnet_v4.gateway)
        dhcp_server == legacy_dhcp_server(subnet_v4, gateway)
    IN  [label |-> network.label,
         broadcast |-> Broadcast(subnet_v4.cidr),
         mac |-> vif.address,
         vif_type |-> vif.type,
         vif_devname |-> Get(vif, "devname", None),
         vif_uuid |-> vif.id,
         ovs_interfaceid |-> Get(vif, "ovs_interfaceid", None),
         qbh_params |-> Get(vif, "qbh_params", NoneObj),
         qbg_params |-> Get(vif, "qbg_params", NoneObj),
         rxtx_cap |-> get_meta(vif, "rxtx_cap", 0),
         dns |-> MapSeq(subnet_v4.dns, get_ip),
         ips |-> legacy_ips(v4_subnets),
         should_create_bridge |-> should_create_bridge,
         should_create_vlan |-> should_create_vlan,
         dhcp_server |-> dhcp_server]
        @@ legacy_routes_key(routes)
        @@ legacy_gateway_key(gateway)
        @@ legacy_gateway_v6_key(v6_subnets, subnet_v6)
        @@ legacy_ip6s_key(v6_subnets, subnet_v6)

\* the pair the pass appends, for a vif that is not skipped and has a v4 subnet
legacy_pair(vif) ==
    LET network == vif.network
        v4_subnets == v4_subnets_of(network.subnets)
        v6_subnets == v6_subnets_of(network.subnets)
        subnet_v4 == first_or_none(v4_subnets)
        subnet_v6 == first_or_none(v6_subnets)
    IN  <<legacy_network_dict(network, subnet_v4, subnet_v6),
          legacy_info_dict(vif, network, v4_subnets, v6_subnets,
                           subnet_v4, subnet_v6)>>

\* legacy_pass passing over a network with no v4 subnet instead of raising
legacy_pass_no_raise(vif) ==
    IF legacy_skips(vif) \/ ~TruthyObj(first_or_none(v4_subnets_of(vif.network.subnets)))
    THEN [do |-> "continue"]
    ELSE [do |-> "append", pair |-> legacy_pair(vif)]

\* what one pass does: "continue", "raise" (NovaException), or "append" a pair
legacy_pass(vif) ==
    IF legacy_skips(vif) THEN [do |-> "continue"]
    ELSE IF ~TruthyObj(first_or_none(v4_subnets_of(vif.network.subnets)))
         THEN [do |-> "raise", exc |-> "NovaException",
               message |-> "v4 subnets are required for legacy nw_info"]
         ELSE [do |-> "append", pair |-> legacy_pair(vif)]

\* network_info.append((network_dict, info_dict))
legacy_append(acc, pair) == Append(acc, pair)

(***************************************************************************)
(* The objects the model builds NetworkInfo lists from.                    *)
(***************************************************************************)
FloatingA == IP([address |-> "172.16.0.9", type |-> "floating"])

\* 10.0.0.0/24 with everything set: two addresses (the first with a floating
\* address), a gateway, a DNS server, a default route
Subnet4aFull ==
    Subnet([cidr |-> "10.0.0.0/24",
            gateway |-> IP([address |-> "10.0.0.1", type |-> "gateway"]),
            dns |-> <<IP([address |-> "10.0.0.1", type |-> "dns"])>>,
            ips |-> <<FixedIP([address |-> "10.0.0.5", floating_ips |-> <<FloatingA>>]),
                      FixedIP([address |-> "10.0.0.6"])>>,
            routes |-> <<Route([cidr |-> "0.0.0.0/0",
                                gateway |-> IP([address |-> "10.0.0.1"])])>>])
\* 10.0.0.0/24 with a gateway object that holds no address, a route with no
\* gateway, and a dhcp_server in meta
Subnet4aPlaceholder ==
    Subnet([cidr |-> "10.0.0.0/24",
            gateway |-> IP(EmptyDict),
            ips |-> <<FixedIP([address |-> "10.0.0.6"])>>,
            routes |-> <<Route([cidr |-> "10.0.1.0/24"])>>,
            dhcp_server |-> "10.0.0.5"])
\* 10.0.0.0/24 with nothing but the prefix
Subnet4aBare == Subnet([cidr |-> "10.0.0.0/24"])
\* 10.0.1.0/24 with a gateway and a dhcp_server in meta
Subnet4b ==
    Subnet([cidr |-> "10.0.1.0/24",
            gateway |-> IP([address |-> "10.0.1.1", type |-> "gateway"]),
            ips |-> <<FixedIP([address |-> "10.0.1.5"])>>,
            meta |-> [dhcp_server |-> "10.0.1.5"]])
Subnet6aFull ==
    Subnet([cidr |-> "fd00::/64",
            gateway |-> IP([address |-> "fd00::1", type |-> "gateway"]),
            ips |-> <<FixedIP([address |-> "fd00::5"])>>])
Subnet6aPlaceholder ==
    Subnet([cidr |-> "fd00::/64",
            gateway |-> IP(EmptyDict),
            ips |-> <<FixedIP([address |-> "fd00::5"])>>])
Subnet6aBare == Subnet([cidr |-> "fd00::/64"])
Subnet6b ==
    Subnet([cidr |-> "fd01::/64",
            gateway |-> IP([address |-> "fd01::1", type |-> "gateway"]),
            ips |-> <<FixedIP([address |-> "fd01::5"])>>])

SubnetPool == {Subnet4aFull, Subnet4aPlaceholder, Subnet4aBare, Subnet4b,
               Subnet6aFull, Subnet6aPlaceholder, Subnet6aBare, Subnet6b}

VifIds == <<"vif1", "vif2", "vif3", "vif4">>
Macs == <<"aa:00:00:00:00:01", "aa:00:00:00:00:02", "aa:00:00:00:00:03",
          "aa:00:00:00:00:04">>
NetIds == <<"net1", "net2", "net3", "net4">>

\* the n-th VIF of a list, on the given network (or None)
NewVif(n, network) ==
    VIF([id |-> VifIds[n], address |-> Macs[n], network |-> network,
         type |-> "bridge", devname |-> "tap0"])
NewNetwork(n, subnets) ==
    Network([id |-> NetIds[n], bridge |-> "br0", label |-> "priv",
             subnets |-> subnets])

\* the n-th VIF of a list, of type 802.1qbg or 802.1qbh with its parameters
NewVifQbg(n) ==
    VIF([id |-> VifIds[n], address |-> Macs[n], type |-> "802.1qbg",
         qbg_params |-> VIF8021QbgParams("mgr", "type1", "1", "inst1"),
         rxtx_cap |-> 10])
NewVifQbh(n) ==
    VIF([id |-> VifIds[n], address |-> Macs[n], type |-> "802.1qbh",
         qbh_params |-> VIF8021QbhParams("profile1")])

RECURSIVE SubnetCount(_)
SubnetCount(vifs) ==
    IF vifs = <<>> THEN 0
    ELSE (IF TruthyObj(Head(vifs).network) THEN Len(Head(vifs).network.subnets) ELSE 0)
         + SubnetCount(Tail(vifs))

(***************************************************************************)
(* The state.                                                              *)
(***************************************************************************)
NoRet == [kind |-> "none"]
NoCall == [op |-> "none"]

Init ==
    /\ nw_info = <<>>
    /\ pc = "idle"
    /\ idx = 0
    /\ network_info = <<>>
    /\ ret = NoRet
    /\ last = NoCall

\* the caller builds the list: NetworkInfo is a list, a VIF is appended to it
AppendVifNoNetwork ==
    /\ pc = "idle"
    /\ Len(nw_info) < MaxVifs
    /\ nw_info' = Append(nw_info, NewVif(Len(nw_info) + 1, NoneObj))
    /\ UNCHANGED <<pc, idx, network_info, ret, last>>

AppendVif ==
    /\ pc = "idle"
    /\ Len(nw_info) < MaxVifs
    /\ \E n \in 0..(MaxSubnets - SubnetCount(nw_info)) :
       \E subnets \in [1..n -> SubnetPool] :
          nw_info' = Append(nw_info,
                            NewVif(Len(nw_info) + 1,
                                   NewNetwork(Len(nw_info) + 1, subnets)))
    /\ UNCHANGED <<pc, idx, network_info, ret, last>>

AppendVifQbg ==
    /\ pc = "idle"
    /\ Len(nw_info) < MaxVifs
    /\ nw_info' = Append(nw_info, NewVifQbg(Len(nw_info) + 1))
    /\ UNCHANGED <<pc, idx, network_info, ret, last>>

AppendVifQbh ==
    /\ pc = "idle"
    /\ Len(nw_info) < MaxVifs
    /\ nw_info' = Append(nw_info, NewVifQbh(Len(nw_info) + 1))
    /\ UNCHANGED <<pc, idx, network_info, ret, last>>

(***************************************************************************)
(* NetworkInfo.legacy, one pass of its loop at a time.                     *)
(***************************************************************************)
LegacyCall ==
    /\ pc = "idle"
    /\ pc' = "legacy"
    /\ idx' = 1
    /\ network_info' = <<>>
    /\ UNCHANGED <<nw_info, ret, last>>

LegacyPass ==
    /\ pc = "legacy"
    /\ idx <= Len(nw_info)
    /\ LET pass == legacy_pass(nw_info[idx])
       IN  CASE pass.do = "continue" ->
                  /\ idx' = idx + 1
                  /\ UNCHANGED <<pc, network_info, ret>>
             [] pass.do = "raise" ->
                  \* the exception leaves legacy(): its locals are gone
                  /\ pc' = "raised"
                  /\ ret' = Raise(pass.exc)
                  /\ UNCHANGED <<idx, network_info>>
             [] pass.do = "append" ->
                  /\ network_info' = legacy_append(network_info, pass.pair)
                  /\ idx' = idx + 1
                  /\ UNCHANGED <<pc, ret>>
    /\ UNCHANGED <<nw_info, last>>

LegacyReturn ==
    /\ pc = "legacy"
    /\ idx > Len(nw_info)
    /\ pc' = "returned"
    /\ ret' = Value(network_info)
    /\ UNCHANGED <<nw_info, idx, network_info, last>>

Next ==
    \/ AppendVifNoNetwork
    \/ AppendVif
    \/ LegacyCall
    \/ LegacyPass
    \/ LegacyReturn

Spec == Init /\ [][Next]_vars

(***************************************************************************)
(* What the claims speak of, stated on the NetworkInfo list itself.        *)
(***************************************************************************)
\* a VIF that has a network whose subnets list is non-empty
Eligible(vif) == vif.network # NoneObj /\ Len(vif.network.subnets) > 0
\* an eligible VIF none of whose subnets is IPv4
LacksV4(vif) ==
    Eligible(vif) /\ \A i \in 1..Len(vif.network.subnets) : vif.network.subnets[i].version # 4
HasVersion(subnets, v) == \E i \in 1..Len(subnets) : subnets[i].version = v
\* the first subnet of the original sequence whose version is v
FirstOfVersion(subnets, v) ==
    LET at == {i \in 1..Len(subnets) : subnets[i].version = v}
    IN  subnets[CHOOSE i \in at : \A j \in at : i <= j]
RECURSIVE OfVersion(_, _)
OfVersion(subnets, v) ==
    IF subnets = <<>> THEN <<>>
    ELSE (IF Head(subnets).version = v THEN <<Head(subnets)>> ELSE <<>>)
         \o OfVersion(Tail(subnets), v)
AddressOrNone(ip) == IF ip = NoneObj THEN None ELSE ip.address
\* the <<address, gateway address of its own subnet>> of every address of the
\* subnets, in subnet order then ip order
RECURSIVE OwnGatewayEntries(_)
OwnGatewayEntries(subnets) ==
    IF subnets = <<>> THEN <<>>
    ELSE [j \in 1..Len(Head(subnets).ips) |->
             <<Head(subnets).ips[j].address, AddressOrNone(Head(subnets).gateway)>>]
         \o OwnGatewayEntries(Tail(subnets))
EntriesOf(dicts) == [j \in 1..Len(dicts) |-> <<dicts[j].ip, dicts[j].gateway>>]

Returned == pc = "returned"
Pairs == 1..Len(ret.value)
NetworkDict(k) == ret.value[k][1]
InfoDict(k) == ret.value[k][2]
\* the VIF a pair was made from
VifOf(k) == nw_info[CHOOSE i \in 1..Len(nw_info) : nw_info[i].id = InfoDict(k).vif_uuid]
SubnetsOf(k) == VifOf(k).network.subnets

\* C1: when legacy() returns, its list holds one pair per eligible VIF (a VIF
\* with a network whose subnets list is non-empty), in the order of the VIFs;
\* a VIF without network or with an empty subnets list adds nothing, and the
\* call raises only if some eligible VIF has no IPv4 subnet.
C1_OnePairPerEligibleVif ==
    /\ Returned =>
          LET eligible == SelectSeq(nw_info, Eligible)
          IN  /\ ret.kind = "value"
              /\ Len(ret.value) = Len(eligible)
              /\ \A k \in Pairs :
                    /\ InfoDict(k).vif_uuid = eligible[k].id
                    /\ InfoDict(k).mac = eligible[k].address
                    /\ NetworkDict(k).id = eligible[k].network.id
    /\ pc = "raised" => \E i \in 1..Len(nw_info) : LacksV4(nw_info[i])
C1_Witness ==
    /\ Returned
    /\ Len(nw_info) = 2
    /\ ~Eligible(nw_info[1])
    /\ nw_info[1].network # NoneObj
    /\ Len(ret.value) = 1

\* C2: if a VIF at any position has a network with subnets none of which is
\* IPv4, legacy() ends in the missing-required-subnet error and hands its
\* caller no list, whatever pairs it had built.
C2_MissingV4Aborts ==
    (pc \in {"returned", "raised"} /\ \E i \in 1..Len(nw_info) : LacksV4(nw_info[i]))
        => /\ pc = "raised"
           /\ ret.kind = "raise"
           /\ ret.exc = "NovaException"
           /\ "value" \notin DOMAIN ret
C2_Witness ==
    /\ pc = "raised"
    /\ Len(nw_info) = 2
    /\ LacksV4(nw_info[2])
    /\ Len(network_info) = 1

\* C5: in every pair, dhcp_server is the dhcp_server of the meta of the first
\* IPv4 subnet if that key is there, and else the address of that subnet's
\* gateway (None if there is none), which is also the value of 'gateway'
\* when that key is there.
C5_DhcpServerDefault ==
    Returned => \A k \in Pairs :
        LET subnet_v4 == FirstOfVersion(SubnetsOf(k), 4)
            info == InfoDict(k)
        IN  /\ "dhcp_server" \in DOMAIN info
            /\ IF "dhcp_server" \in DOMAIN subnet_v4.meta
               THEN info.dhcp_server = subnet_v4.meta.dhcp_server
               ELSE /\ info.dhcp_server = AddressOrNone(subnet_v4.gateway)
                    /\ "gateway" \in DOMAIN info => info.dhcp_server = info.gateway
C5_Witness ==
    /\ Returned
    /\ \E k \in Pairs :
          /\ "dhcp_server" \notin DOMAIN FirstOfVersion(SubnetsOf(k), 4).meta
          /\ "gateway" \in DOMAIN InfoDict(k)
          /\ InfoDict(k).dhcp_server = "10.0.0.1"
    /\ \E k \in Pairs :
          /\ "dhcp_server" \in DOMAIN FirstOfVersion(SubnetsOf(k), 4).meta
          /\ "gateway" \in DOMAIN InfoDict(k)
          /\ InfoDict(k).dhcp_server # InfoDict(k).gateway

\* C8: in every pair, routes is a key iff the first IPv4 subnet has routes,
\* gateway iff that subnet's gateway has an address, ip6s iff the network
\* has an IPv6 subnet, gateway_v6 iff it has one and the first one has a
\* gateway object.
C8_ConditionalKeys ==
    Returned => \A k \in Pairs :
        LET subnets == SubnetsOf(k)
            subnet_v4 == FirstOfVersion(subnets, 4)
            keys == DOMAIN InfoDict(k)
        IN  /\ "routes" \in keys <=> subnet_v4.routes # <<>>
            /\ "gateway" \in keys <=>
                  (subnet_v4.gateway # NoneObj /\ subnet_v4.gateway.address # None)
            /\ "ip6s" \in keys <=> HasVersion(subnets, 6)
            /\ "gateway_v6" \in keys <=>
                  (HasVersion(subnets, 6) /\ FirstOfVersion(subnets, 6).gateway # NoneObj)
C8_Witness ==
    /\ Returned
    /\ \E k \in Pairs :
          /\ \A i \in 1..Len(SubnetsOf(k)) : SubnetsOf(k)[i].version = 4
          /\ FirstOfVersion(SubnetsOf(k), 4).routes = <<>>
          /\ DOMAIN InfoDict(k) \cap {"routes", "gateway_v6", "ip6s"} = {}
    /\ \E k \in Pairs :
          /\ "gateway_v6" \in DOMAIN InfoDict(k)
          /\ InfoDict(k).gateway_v6 = None
          /\ "gateway" \notin DOMAIN InfoDict(k)
          /\ FirstOfVersion(SubnetsOf(k), 4).gateway # NoneObj

\* C9: in every pair, cidr is the cidr of the first subnet of the network
\* whose version is 4 and cidr_v6 that of the first whose version is 6, or
\* None if there is none, however the two families are interleaved.
C9_FirstMatchSelection ==
    Returned => \A k \in Pairs :
        LET subnets == SubnetsOf(k)
        IN  /\ NetworkDict(k).cidr = FirstOfVersion(subnets, 4).cidr
            /\ NetworkDict(k).cidr_v6 =
                  IF HasVersion(subnets, 6) THEN FirstOfVersion(subnets, 6).cidr
                  ELSE None
C9_Witness ==
    /\ Returned
    /\ \E k \in Pairs :
          LET subnets == SubnetsOf(k)
          IN  /\ Len(subnets) = 3
              /\ subnets[1].version = 6
              /\ subnets[2].version = 4
              /\ subnets[3].version = 6
              /\ subnets[1].cidr # subnets[3].cidr
              /\ NetworkDict(k).cidr = subnets[2].cidr
              /\ NetworkDict(k).cidr_v6 = subnets[1].cidr

\* C10: in every pair, ips has one entry per address of every IPv4 subnet,
\* in subnet order then ip order, each with the gateway address of its own
\* subnet; ip6s, when there, has one entry per address of the first IPv6
\* subnet only.
C10_AddressMerge ==
    Returned => \A k \in Pairs :
        LET subnets == SubnetsOf(k)
            info == InfoDict(k)
        IN  /\ EntriesOf(info.ips) = OwnGatewayEntries(OfVersion(subnets, 4))
            /\ \A j \in 1..Len(info.ips) : info.ips[j].enabled = "1"
            /\ "ip6s" \in DOMAIN info =>
                  EntriesOf(info.ip6s) =
                      OwnGatewayEntries(<<FirstOfVersion(subnets, 6)>>)
C10_Witness ==
    /\ Returned
    /\ \E k \in Pairs :
          LET v4 == OfVersion(SubnetsOf(k), 4)
              v6 == OfVersion(SubnetsOf(k), 6)
          IN  /\ Len(v4) = 2
              /\ AddressOrNone(v4[1].gateway) # AddressOrNone(v4[2].gateway)
              /\ Len(v4[1].ips) = 2
              /\ Len(v4[2].ips) = 1
              /\ Len(InfoDict(k).ips) = 3
              /\ Len(v6) = 1
              /\ Len(InfoDict(k).ip6s) = 1

(***************************************************************************)
(* VIF.fixed_ips, VIF.floating_ips and the two NetworkInfo methods over    *)
(* them.                                                                   *)
(***************************************************************************)
\* VIF.fixed_ips(): self['network']['subnets'] of a network that is None
\* raises TypeError
VIF_fixed_ips(self) ==
    IF "subnets" \notin DOMAIN self.network THEN Raise("TypeError")
    ELSE Value(Concat([i \in 1..Len(self.network.subnets) |->
                          self.network.subnets[i].ips]))

\* VIF.floating_ips()
VIF_floating_ips(self) ==
    LET fixed == VIF_fixed_ips(self)
    IN  IF fixed.kind = "raise" THEN fixed
        ELSE Value(Concat([i \in 1..Len(fixed.value) |->
                              fixed.value[i].floating_ips]))

\* NetworkInfo.fixed_ips()
NetworkInfo_fixed_ips(self) ==
    LET each == [i \in 1..Len(self) |-> VIF_fixed_ips(self[i])]
    IN  IF \E i \in 1..Len(self) : each[i].kind = "raise" THEN Raise("TypeError")
        ELSE Value(Concat([i \in 1..Len(self) |-> each[i].value]))

\* NetworkInfo.floating_ips()
NetworkInfo_floating_ips(self) ==
    LET each == [i \in 1..Len(self) |-> VIF_floating_ips(self[i])]
    IN  IF \E i \in 1..Len(self) : each[i].kind = "raise" THEN Raise("TypeError")
        ELSE Value(Concat([i \in 1..Len(self) |-> each[i].value]))

CallVifFixedIps ==
    /\ pc = "idle"
    /\ \E i \in 1..Len(nw_info) :
          /\ idx' = i
          /\ ret' = VIF_fixed_ips(nw_info[i])
    /\ pc' = "vif_fixed_ips"
    /\ UNCHANGED <<nw_info, network_info, last>>

CallVifFloatingIps ==
    /\ pc = "idle"
    /\ \E i \in 1..Len(nw_info) :
          /\ idx' = i
          /\ ret' = VIF_floating_ips(nw_info[i])
    /\ pc' = "vif_floating_ips"
    /\ UNCHANGED <<nw_info, network_info, last>>

CallFixedIps ==
    /\ pc = "idle"
    /\ ret' = NetworkInfo_fixed_ips(nw_info)
    /\ pc' = "fixed_ips"
    /\ UNCHANGED <<nw_info, idx, network_info, last>>

CallFloatingIps ==
    /\ pc = "idle"
    /\ ret' = NetworkInfo_floating_ips(nw_info)
    /\ pc' = "floating_ips"
    /\ UNCHANGED <<nw_info, idx, network_info, last>>

(***************************************************************************)
(* Model.get_meta called on an object of the list.                         *)
(***************************************************************************)
SeqToSet(s) == {s[i] : i \in 1..Len(s)}
Present(o) == IF o = NoneObj THEN {} ELSE {o}

\* every Model object reachable from a subnet, a VIF, the list
SubnetObjects(subnet) ==
    {subnet} \cup Present(subnet.gateway) \cup SeqToSet(subnet.dns)
    \cup SeqToSet(subnet.ips)
    \cup UNION {SeqToSet(ip.floating_ips) : ip \in SeqToSet(subnet.ips)}
    \cup SeqToSet(subnet.routes)
    \cup UNION {Present(route.gateway) : route \in SeqToSet(subnet.routes)}
VifObjects(vif) ==
    {vif} \cup Present(vif.qbh_params) \cup Present(vif.qbg_params)
    \cup Present(vif.network)
    \cup (IF vif.network = NoneObj THEN {}
          ELSE UNION {SubnetObjects(subnet) : subnet \in SeqToSet(vif.network.subnets)})
Objects(vifs) == UNION {VifObjects(vif) : vif \in SeqToSet(vifs)}

MetaKeys == {"dhcp_server", "no_such_key"}

CallGetMeta ==
    /\ pc = "idle"
    /\ \E self \in Objects(nw_info), key \in MetaKeys :
          /\ last' = [op |-> "get_meta", self |-> self, key |-> key,
                      default |-> "fallback"]
          /\ ret' = call_get_meta(self, key, "fallback")
    /\ pc' = "get_meta"
    /\ UNCHANGED <<nw_info, idx, network_info>>

NextAccess ==
    \/ AppendVifNoNetwork
    \/ AppendVif
    \/ AppendVifQbg
    \/ AppendVifQbh
    \/ CallVifFixedIps
    \/ CallVifFloatingIps
    \/ CallFixedIps
    \/ CallFloatingIps
    \/ CallGetMeta

SpecAccess == Init /\ [][NextAccess]_vars

\* C7: fixed_ips() of a VIF with no network returns an empty list and does
\* not raise, and so do floating_ips() and the two methods of a list that
\* holds such a VIF; with a network it returns the FixedIPs of every subnet,
\* in subnet order then ip order.
C7_FixedIpsOfVifWithoutNetwork ==
    /\ pc = "vif_fixed_ips" =>
          IF nw_info[idx].network = NoneObj THEN ret = Value(<<>>)
          ELSE ret = Value(Concat([i \in 1..Len(nw_info[idx].network.subnets) |->
                                      nw_info[idx].network.subnets[i].ips]))
    /\ (pc = "vif_floating_ips" /\ nw_info[idx].network = NoneObj) => ret = Value(<<>>)
    /\ pc \in {"fixed_ips", "floating_ips"} => ret.kind = "value"

\* C6: every object of the model has a meta item, and get_meta(key, default)
\* with a key that is not in meta returns default and raises nothing.
C6_MetaAlwaysThere ==
    pc = "get_meta" =>
        /\ "meta" \in DOMAIN last.self
        /\ ret.kind = "value"
        /\ last.key \notin DOMAIN last.self.meta => ret = Value(last.default)

(***************************************************************************)
(* Equality, and the add_* helpers.  `x not in list` compares the elements *)
(* of the list with x one by one, with the __eq__ of their class.          *)
(***************************************************************************)
\* IP.__eq__ (inherited by FixedIP)
IP_eq(self, other) == self.address = other.address

\* Subnet_eq comparing all the items, as a dict with no __eq__ of its own would
Subnet_eq_structural(self, other) == self = other

\* Subnet.__eq__
Subnet_eq(self, other) == self.cidr = other.cidr

\* Route defines no __eq__: dict equality, item by item, and the gateway
\* items are compared with IP.__eq__.  A gateway that is None against one
\* that is an IP makes IP.__eq__ raise TypeError (None['address']), unless
\* the comparison has already met an item that differs; the order in which
\* the items are met is the dict's.  The set of the possible outcomes.
Route_cmp(self, other) ==
    LET mixed == (self.gateway = NoneObj) # (other.gateway = NoneObj)
        others == /\ self.cidr = other.cidr
                  /\ self.interface = other.interface
                  /\ self.meta = other.meta
    IN  IF mixed THEN (IF others THEN {"raise"} ELSE {"unequal", "raise"})
        ELSE IF others /\ (self.gateway = NoneObj \/ IP_eq(self.gateway, other.gateway))
             THEN {"equal"} ELSE {"unequal"}

\* new_route in routes: "yes", "no" or "raise"
RECURSIVE route_in(_, _)
route_in(routes, new_route) ==
    IF routes = <<>> THEN {"no"}
    ELSE LET c == Route_cmp(Head(routes), new_route)
         IN  (IF "equal" \in c THEN {"yes"} ELSE {})
             \cup (IF "raise" \in c THEN {"raise"} ELSE {})
             \cup (IF "unequal" \in c THEN route_in(Tail(routes), new_route) ELSE {})

\* Subnet.add_route(new_route), given how `new_route not in routes` ended
add_route(routes, new_route, found) ==
    IF found = "no" THEN Append(routes, new_route) ELSE routes

\* Subnet.add_dns(dns)
add_dns(list, dns) ==
    IF \E i \in 1..Len(list) : IP_eq(list[i], dns) THEN list ELSE Append(list, dns)

\* Subnet.add_ip(ip)
add_ip(ips, ip) ==
    IF \E i \in 1..Len(ips) : IP_eq(ips[i], ip) THEN ips ELSE Append(ips, ip)

\* Network.add_subnet(subnet)
add_subnet(subnets, subnet) ==
    IF \E i \in 1..Len(subnets) : Subnet_eq(subnets[i], subnet) THEN subnets
    ELSE Append(subnets, subnet)

\* FixedIP.add_floating_ip(floating_ip)
add_floating_ip(floating_ips, floating_ip) ==
    IF \E i \in 1..Len(floating_ips) : IP_eq(floating_ips[i], floating_ip)
    THEN floating_ips ELSE Append(floating_ips, floating_ip)

(***************************************************************************)
(* The add_* calls on the network of one VIF.                              *)
(***************************************************************************)
\* pairs that share the identity key and differ in the other items
AddIps ==
    {IP([address |-> "10.0.0.5", type |-> "fixed"]),
     IP([address |-> "10.0.0.5", type |-> "floating", version |-> 6,
         meta |-> [pool |-> "ext"]]),
     IP([address |-> "10.0.0.6"])}
AddFixedIps ==
    {FixedIP([address |-> "10.0.0.5"]),
     FixedIP([address |-> "10.0.0.5", type |-> "other", version |-> 6,
              floating_ips |-> <<FloatingA>>, label |-> "second"]),
     FixedIP([address |-> "10.0.0.6"])}
AddSubnets ==
    {Subnet([cidr |-> "10.0.0.0/24"]),
     Subnet([cidr |-> "10.0.0.0/24", version |-> 6,
             gateway |-> IP([address |-> "10.0.0.1"]),
             dns |-> <<IP([address |-> "10.0.0.1"])>>,
             dhcp_server |-> "10.0.0.5"]),
     Subnet([cidr |-> "fd00::/64"])}
AddRoutes ==
    {Route([cidr |-> "0.0.0.0/0",
            gateway |-> IP([address |-> "10.0.0.1", type |-> "gateway"])]),
     Route([cidr |-> "0.0.0.0/0",
            gateway |-> IP([address |-> "10.0.0.1", type |-> "other"])]),
     Route([cidr |-> "0.0.0.0/0"]),
     Route([cidr |-> "10.0.1.0/24", interface |-> "eth1"])}

TheSubnets == nw_info[1].network.subnets

RECURSIVE Elements(_)
Elements(subnets) ==
    IF subnets = <<>> THEN 0
    ELSE LET subnet == Head(subnets)
         IN  1 + Len(subnet.dns) + Len(subnet.routes) + Len(subnet.ips)
             + Len(Concat([i \in 1..Len(subnet.ips) |-> subnet.ips[i].floating_ips]))
             + Elements(Tail(subnets))

InitAdd ==
    /\ nw_info = <<NewVif(1, NewNetwork(1, <<>>))>>
    /\ pc = "idle"
    /\ idx = 0
    /\ network_info = <<>>
    /\ ret = NoRet
    /\ last = NoCall

\* the add_* call `op` with argument `arg` on the list that held `before`,
\* found at subnet s (and address i of it), which it leaves as `after`
Added(op, s, i, arg, before, after, subnets) ==
    /\ Elements(subnets) <= MaxElements
    /\ nw_info' = [nw_info EXCEPT ![1].network.subnets = subnets]
    /\ last' = [op |-> op, s |-> s, i |-> i, arg |-> arg, before |-> before]
    /\ UNCHANGED <<pc, idx, network_info>>

AddSubnet ==
    \E subnet \in AddSubnets :
        LET after == add_subnet(TheSubnets, subnet)
        IN  /\ Added("add_subnet", 0, 0, subnet, TheSubnets, after, after)
            /\ ret' = Value(None)

AddIp ==
    \E s \in 1..Len(TheSubnets), ip \in AddFixedIps :
        LET after == add_ip(TheSubnets[s].ips, ip)
        IN  /\ Added("add_ip", s, 0, ip, TheSubnets[s].ips, after,
                     [TheSubnets EXCEPT ![s].ips = after])
            /\ ret' = Value(None)

AddDns ==
    \E s \in 1..Len(TheSubnets), dns \in AddIps :
        LET after == add_dns(TheSubnets[s].dns, dns)
        IN  /\ Added("add_dns", s, 0, dns, TheSubnets[s].dns, after,
                     [TheSubnets EXCEPT ![s].dns = after])
            /\ ret' = Value(None)

AddRoute ==
    \E s \in 1..Len(TheSubnets), new_route \in AddRoutes :
    \E found \in route_in(TheSubnets[s].routes, new_route) :
        LET after == add_route(TheSubnets[s].routes, new_route, found)
        IN  /\ Added("add_route", s, 0, new_route, TheSubnets[s].routes, after,
                     [TheSubnets EXCEPT ![s].routes = after])
            /\ ret' = IF found = "raise" THEN Raise("TypeError") ELSE Value(None)

AddFloatingIp ==
    \E s \in 1..Len(TheSubnets) :
    \E i \in 1..Len(TheSubnets[s].ips), floating_ip \in AddIps :
        LET after == add_floating_ip(TheSubnets[s].ips[i].floating_ips, floating_ip)
        IN  /\ Added("add_floating_ip", s, i, floating_ip,
                     TheSubnets[s].ips[i].floating_ips, after,
                     [TheSubnets EXCEPT ![s].ips[i].floating_ips = after])
            /\ ret' = Value(None)

NextAdd ==
    \/ AddSubnet
    \/ AddIp
    \/ AddDns
    \/ AddRoute
    \/ AddFloatingIp

SpecAdd == InitAdd /\ [][NextAdd]_vars

\* the identity key of an element of the list an add_* call works on; a
\* Route has none, its items (the gateway by its address) stand for it
RouteKey(route) ==
    <<route.cidr, route.interface, route.meta, AddressOrNone(route.gateway),
      route.gateway = NoneObj>>
KeyOf(op, e) ==
    CASE op = "add_subnet" -> e.cidr
      [] op = "add_route" -> RouteKey(e)
      [] OTHER -> e.address
NoSharedKey(op, list) ==
    \A i, j \in 1..Len(list) : KeyOf(op, list[i]) = KeyOf(op, list[j]) => i = j
\* the list the last add_* call worked on, as it is now
TargetNow ==
    CASE last.op = "add_subnet" -> TheSubnets
      [] last.op = "add_ip" -> TheSubnets[last.s].ips
      [] last.op = "add_dns" -> TheSubnets[last.s].dns
      [] last.op = "add_route" -> TheSubnets[last.s].routes
      [] last.op = "add_floating_ip" -> TheSubnets[last.s].ips[last.i].floating_ips
KeyWasThere ==
    \E i \in 1..Len(last.before) : KeyOf(last.op, last.before[i]) = KeyOf(last.op, last.arg)

\* C4: an add_* call whose argument has the identity key of an element of
\* the list leaves the list as it was, whatever the other items of the two;
\* any other call that returns appends its argument; so no list built by
\* add_* calls from an empty one holds two elements with one key.
C4_IdentityDedup ==
    /\ last.op # "none" =>
          /\ KeyWasThere => TargetNow = last.before
          /\ (~KeyWasThere /\ ret.kind = "value") =>
                TargetNow = Append(last.before, last.arg)
          /\ ret.kind = "raise" => TargetNow = last.before
    /\ NoSharedKey("add_subnet", TheSubnets)
    /\ \A s \in 1..Len(TheSubnets) :
          /\ NoSharedKey("add_route", TheSubnets[s].routes)
          /\ NoSharedKey("add_dns", TheSubnets[s].dns)
          /\ NoSharedKey("add_ip", TheSubnets[s].ips)
          /\ \A i \in 1..Len(TheSubnets[s].ips) :
                NoSharedKey("add_floating_ip", TheSubnets[s].ips[i].floating_ips)
C4_Witness ==
    /\ last.op = "add_ip"
    /\ \E i \in 1..Len(last.before) :
          /\ last.before[i].address = last.arg.address
          /\ last.before[i].type # last.arg.type
          /\ last.before[i].version # last.arg.version
          /\ last.before[i].meta # last.arg.meta
          /\ last.before[i].floating_ips # last.arg.floating_ips
    /\ Len(last.before) = 2
    /\ TargetNow = last.before

(***************************************************************************)
(* NetworkInfo.json and the hydrate class methods.  jsonutils.dumps writes *)
(* every Model object as a JSON object of its items, a list as an array,   *)
(* None as null; jsonutils.loads reads them back as plain dicts, lists and *)
(* None.  The class of an object is not written.                           *)
(***************************************************************************)
\* a Model object, or None, as loads(dumps(.)) gives it back
Plain(o) == IF o = NoneObj THEN NoneObj ELSE [o EXCEPT !.cls = "dict"]

json_ip(ip) == Plain(ip)
json_fixed_ip(ip) ==
    [Plain(ip) EXCEPT !.floating_ips = MapSeq(@, json_ip)]
json_route(route) ==
    [Plain(route) EXCEPT !.gateway = json_ip(@)]
json_subnet(subnet) ==
    [Plain(subnet) EXCEPT !.dns = MapSeq(@, json_ip),
                          !.gateway = json_ip(@),
                          !.ips = MapSeq(@, json_fixed_ip),
                          !.routes = MapSeq(@, json_route)]
json_network(network) ==
    IF network = NoneObj THEN NoneObj
    ELSE [Plain(network) EXCEPT !.subnets = MapSeq(@, json_subnet)]
json_vif(vif) ==
    [Plain(vif) EXCEPT !.network = json_network(@),
                       !.qbh_params = Plain(@),
                       !.qbg_params = Plain(@)]

\* NetworkInfo.json(), read back by jsonutils.loads
NetworkInfo_json(self) == MapSeq(self, json_vif)

\* ensure_string_keys(d): the items of d under str(key); the keys the JSON
\* reader gives are strings already
ensure_string_keys(d) == [k \in DOMAIN Items(d) |-> d[k]]

\* IP.hydrate returning None for an IP that holds no address
IP_hydrate_needs_address(ip) ==
    IF TruthyObj(ip) /\ TruthyStr(ip.address) THEN IP(ensure_string_keys(ip))
    ELSE NoneObj

\* IP.hydrate(ip)
IP_hydrate(ip) ==
    IF TruthyObj(ip) THEN IP(ensure_string_keys(ip)) ELSE NoneObj

\* FixedIP.hydrate(fixed_ip)
FixedIP_hydrate(fixed_ip) ==
    [FixedIP(ensure_string_keys(fixed_ip))
        EXCEPT !.floating_ips = MapSeq(@, IP_hydrate)]

\* Route.hydrate(route)
Route_hydrate(route) ==
    [Route(ensure_string_keys(route)) EXCEPT !.gateway = IP_hydrate(@)]

\* Subnet.hydrate(subnet)
Subnet_hydrate(subnet) ==
    [Subnet(ensure_string_keys(subnet))
        EXCEPT !.dns = MapSeq(@, IP_hydrate),
               !.ips = MapSeq(@, FixedIP_hydrate),
               !.routes = MapSeq(@, Route_hydrate),
               !.gateway = IP_hydrate(@)]

\* Network.hydrate(network): a false network is returned as it is
Network_hydrate(network) ==
    IF TruthyObj(network)
    THEN [Network(ensure_string_keys(network))
             EXCEPT !.subnets = MapSeq(@, Subnet_hydrate)]
    ELSE network

\* VIF.hydrate(vif)
VIF_hydrate(vif) ==
    [VIF(ensure_string_keys(vif)) EXCEPT !.network = Network_hydrate(@)]

\* NetworkInfo.hydrate(network_info)
NetworkInfo_hydrate(decoded) == MapSeq(decoded, VIF_hydrate)

\* the subnets of the lists that are written and read back: every shape of
\* gateway, route, address and meta, and a subnet built with no argument
RoundTripPool == {Subnet4aFull, Subnet4aPlaceholder, Subnet4b,
                  Subnet6aPlaceholder, Subnet(EmptyDict)}

\* a VIF built with no address or type, on a network with meta
AppendVifAnySubnets ==
    /\ pc = "idle"
    /\ Len(nw_info) < MaxVifs
    /\ \E n \in 0..(MaxSubnets - SubnetCount(nw_info)) :
       \E subnets \in [1..n -> RoundTripPool] :
          nw_info' = Append(nw_info,
                            VIF([id |-> VifIds[Len(nw_info) + 1],
                                 network |-> Network([subnets |-> subnets,
                                                      injected |-> TRUE,
                                                      meta |-> [vlan |-> "100"]]),
                                 rxtx_cap |-> 10]))
    /\ UNCHANGED <<pc, idx, network_info, ret, last>>

CallJson ==
    /\ pc = "idle"
    /\ pc' = "json"
    /\ ret' = Value(NetworkInfo_json(nw_info))
    /\ UNCHANGED <<nw_info, idx, network_info, last>>

CallHydrate ==
    /\ pc = "json"
    /\ pc' = "hydrated"
    /\ ret' = Value(NetworkInfo_hydrate(ret.value))
    /\ UNCHANGED <<nw_info, idx, network_info, last>>

NextRoundTrip ==
    \/ AppendVifNoNetwork
    \/ AppendVifAnySubnets
    \/ AppendVifQbg
    \/ AppendVifQbh
    \/ CallJson
    \/ CallHydrate

SpecRoundTrip == Init /\ [][NextRoundTrip]_vars

\* the parts of a VIF that hydrate builds anew, and the items of the two
\* parameter objects, which it leaves as the plain dicts it was given
Hydrated(vif) == Without(vif, {"qbh_params", "qbg_params"})

\* C3: hydrate(json()) of a list gives a list of the same length and order,
\* equal to it item for item at every level, meta included.
C3_RoundTrip ==
    pc = "hydrated" =>
        /\ ret.kind = "value"
        /\ Len(ret.value) = Len(nw_info)
        /\ \A i \in 1..Len(nw_info) :
              /\ Hydrated(ret.value[i]) = Hydrated(nw_info[i])
              /\ Items(ret.value[i].qbh_params) = Items(nw_info[i].qbh_params)
              /\ Items(ret.value[i].qbg_params) = Items(nw_info[i].qbg_params)
C3_Witness ==
    /\ pc = "hydrated"
    /\ Len(nw_info) = 2
    /\ nw_info[1].network # NoneObj
    /\ \E s \in 1..Len(nw_info[1].network.subnets) :
          LET subnet == nw_info[1].network.subnets[s]
          IN  /\ subnet.gateway # NoneObj
              /\ subnet.gateway.address = None
              /\ subnet.routes # <<>>
              /\ subnet.meta # EmptyDict
    /\ \E s \in 1..Len(nw_info[1].network.subnets) :
          LET subnet == nw_info[1].network.subnets[s]
          IN  /\ subnet.ips # <<>>
              /\ subnet.ips[1].floating_ips # <<>>
              /\ subnet.routes # <<>>
              /\ subnet.routes[1].gateway # NoneObj
    /\ nw_info[2].network = NoneObj
    /\ nw_info[2].qbg_params # NoneObj
    /\ ret.value[1] = nw_info[1]

====
